---------------------------- MODULE Spec2Model ----------------------------
(***************************************************************************)
(* The evaluation tree cache of src/libexpr/tree-cache.{hh,cc} (the        *)
(* variant with FullAttrs declarations, tree-cache.cc lines 351-733):      *)
(* the variant codec (RawValue), the durable store (AttrDb), the session   *)
(* handle (Cache) and the navigation handle (Cursor).                      *)
(*                                                                         *)
(* Texts are sequences of one-character strings.  A nullable column is a   *)
(* sequence of length at most one: <<>> is NULL, <<t>> holds the text t.   *)
(***************************************************************************)
EXTENDS Integers, Sequences, FiniteSets, TLC

(***************************************************************************)
(* Bounds of the model.                                                    *)
(***************************************************************************)
MaxRows == 4
MaxCursors == 2
MaxThreadCursors == 3

(***************************************************************************)
(* enum AttrType (tree-cache.hh).                                          *)
(***************************************************************************)
Placeholder == 0
FullAttrs == 1
String == 2
Missing == 3
Misc == 4
Failed == 5
Bool == 6

Null == <<>>
Some(x) == <<x>>

(***************************************************************************)
(* Symbols.  rootSymbol is symbols.create("").                             *)
(***************************************************************************)
rootSymbol == ""
Names == {"a", "b"}
Symbols == Names \cup {rootSymbol}

\* The order in which the index on (parent, name) lists the names.
NameOrder == <<"", "a", "b", "c">>

(***************************************************************************)
(* AttrValue: the std::variant of tree-cache.hh.  `alt' names the          *)
(* alternative held; the other fields are the payload of string_t (str,    *)
(* context), of bool (b) and of std::vector<Symbol> (attrs).               *)
(***************************************************************************)
AttrValue(alt, str, context, b, attrs) ==
    [alt |-> alt, str |-> str, context |-> context, b |-> b, attrs |-> attrs]

attrs_t(names) == AttrValue("vector<Symbol>", <<>>, <<>>, FALSE, names)
string_t(s, context) == AttrValue("string_t", s, context, FALSE, <<>>)
placeholder_t == AttrValue("placeholder_t", <<>>, <<>>, FALSE, <<>>)
missing_t == AttrValue("missing_t", <<>>, <<>>, FALSE, <<>>)
misc_t == AttrValue("misc_t", <<>>, <<>>, FALSE, <<>>)
failed_t == AttrValue("failed_t", <<>>, <<>>, FALSE, <<>>)
bool_t(b) == AttrValue("bool", <<>>, <<>>, b, <<>>)

(***************************************************************************)
(* Provenance entries (std::pair<Path, std::string>) of the model.         *)
(***************************************************************************)
Ctx1 == <<<<"x">>, <<"y">>>>
Ctx2 == <<<<"y">>, <<"x">>>>

Contexts == {<<>>, <<Ctx1>>, <<Ctx1, Ctx2>>}

Leaves ==
    {placeholder_t, missing_t, misc_t, failed_t, bool_t(TRUE), bool_t(FALSE)}
    \cup {string_t(<<"s">>, c) : c \in Contexts}

AttrLists == {<<>>, <<"a">>, <<"a", "b">>, <<"a", "a">>}

\* Every value shape, for the properties of the codec and of the store.
AllValues == Leaves \cup {attrs_t(l) : l \in AttrLists}

\* The values the evaluator hands to the cursors of the model: a leaf and an
\* attribute set with two names.
Values == {bool_t(TRUE), attrs_t(<<"a", "b">>)}

(***************************************************************************)
(* context.hh and util.hh helpers.                                         *)
(***************************************************************************)
encodeContext(first, second) == first \o <<":">> \o second

RECURSIVE FindFirstOf(_, _, _)
\* std::string_view::find_first_of(seps, pos), 1-based; Len(s)+1 is npos.
FindFirstOf(s, seps, pos) ==
    IF pos > Len(s) THEN Len(s) + 1
    ELSE IF s[pos] \in seps THEN pos
    ELSE FindFirstOf(s, seps, pos + 1)

RECURSIVE FindFirstNotOf(_, _, _)
FindFirstNotOf(s, seps, pos) ==
    IF pos > Len(s) THEN Len(s) + 1
    ELSE IF s[pos] \notin seps THEN pos
    ELSE FindFirstNotOf(s, seps, pos + 1)

decodeContext(s) ==
    LET i == FindFirstOf(s, {":"}, 1)
    IN  <<SubSeq(s, 1, i - 1), SubSeq(s, i + 1, Len(s))>>

RECURSIVE TokenizeFrom(_, _, _)
TokenizeFrom(s, seps, pos) ==
    IF pos > Len(s) THEN <<>>
    ELSE LET end == FindFirstOf(s, seps, pos + 1)
         IN  <<SubSeq(s, pos, end - 1)>>
             \o TokenizeFrom(s, seps, FindFirstNotOf(s, seps, end))

tokenizeString(s, seps) == TokenizeFrom(s, seps, FindFirstNotOf(s, seps, 1))

(***************************************************************************)
(* RawValue: the row image of a value.                                     *)
(***************************************************************************)
fromVariant(value) ==
    CASE value.alt = "vector<Symbol>" ->
            [type |-> FullAttrs, value |-> Null, context |-> <<>>]
      [] value.alt = "placeholder_t" ->
            [type |-> Placeholder, value |-> Null, context |-> <<>>]
      [] value.alt = "missing_t" ->
            [type |-> Missing, value |-> Null, context |-> <<>>]
      [] value.alt = "misc_t" ->
            [type |-> Misc, value |-> Null, context |-> <<>>]
      [] value.alt = "failed_t" ->
            [type |-> Failed, value |-> Null, context |-> <<>>]
      [] value.alt = "string_t" ->
            [type |-> String, value |-> Some(value.str),
             context |-> value.context]
      [] value.alt = "bool" ->
            [type |-> Bool,
             value |-> Some(IF value.b THEN <<"0">> ELSE <<"1">>),
             context |-> <<>>]

RECURSIVE AppendEntries(_, _)
\* The loop of serializeContext: every entry followed by a space.
AppendEntries(context, i) ==
    IF i > Len(context) THEN <<>>
    ELSE encodeContext(context[i][1], context[i][2]) \o <<" ">>
         \o AppendEntries(context, i + 1)

serializeContext(raw) ==
    LET res == AppendEntries(raw.context, 1)
    IN  IF res # <<>> THEN SubSeq(res, 1, Len(res) - 1) ELSE res


(***************************************************************************)
(* The Attributes table (schema): a set of rows with columns id, parent,   *)
(* name, type, value, context; id is the autoincrement primary key and     *)
(* (parent, name) is unique.                                               *)
(***************************************************************************)
Row(id, parent, name, type, value, context) ==
    [id |-> id, parent |-> parent, name |-> name, type |-> type,
     value |-> value, context |-> context]

\* The table without its unique constraint.
ConflictNever(rows, parent, name) == FALSE

\* unique (parent, name): an insert of an existing pair raises SQLiteError.
Conflict(rows, parent, name) ==
    \E r \in rows : r.parent = parent /\ r.name = name

\* integer primary key autoincrement: one more than every id handed out.
\* Rows are never deleted, so that is one more than the largest id.
NextRowId(rows) ==
    IF rows = {} THEN 1
    ELSE (CHOOSE m \in {r.id : r \in rows} : \A r \in rows : r.id <= m) + 1

\* The (AttrType) cast applied to a 64-bit column: AttrType is an unscoped
\* enum whose underlying type is a 32-bit unsigned int, so the cast keeps the
\* low 32 bits (here as the two 16-bit halves).
AttrTypeCast(x) == (x % 65536) + 65536 * ((x \div 65536) % 65536)

\* SQLiteStmt::Use::getInt on a text column: the leading decimal digits.
Digit(c) ==
    CASE c = "0" -> 0 [] c = "1" -> 1 [] OTHER -> -1

RECURSIVE ParseInt(_, _, _)
ParseInt(s, i, acc) ==
    IF i > Len(s) \/ Digit(s[i]) < 0 THEN acc
    ELSE ParseInt(s, i + 1, 10 * acc + Digit(s[i]))

getInt(col) == IF col = Null THEN 0 ELSE ParseInt(col[1], 1, 0)
getStr(col) == IF col = Null THEN <<>> ELSE col[1]

(***************************************************************************)
(* AttrDb.  d is the store as the methods see it: [rows, failed].  A       *)
(* method returns [db, ret, threw]: the store afterwards, the value        *)
(* returned and the exception that leaves the method ("" when none).       *)
(* werr is the ordinal of the insert of this call on which the storage     *)
(* layer raises an error of its own (0: none); rerr tells whether the      *)
(* lookup of this call raises one.                                         *)
(***************************************************************************)
AttrDbState(rows, failed) == [rows |-> rows, failed |-> failed]

Result(d, ret, threw) == [db |-> d, ret |-> ret, threw |-> threw]

\* doSQLite that runs the function on a failed store too.
doSQLiteRetrying(d, f) ==
    IF f.threw THEN Result(AttrDbState(f.rows, TRUE), 0, "")
    ELSE Result(AttrDbState(f.rows, d.failed), f.ret, "")

\* doSQLite: f is what running the function does, [rows, ret, threw].
doSQLite(d, f) ==
    IF d.failed THEN Result(d, 0, "")
    ELSE IF f.threw THEN Result(AttrDbState(f.rows, TRUE), 0, "")
    ELSE Result(AttrDbState(f.rows, d.failed), f.ret, "")

setLeaf(d, key, value, werr) ==
    IF value.alt = "vector<Symbol>" THEN Result(d, 0, "assert")
    ELSE doSQLite(d,
        LET rawValue == fromVariant(value)
            rowId == NextRowId(d.rows)
        IN  IF werr = 1 \/ Conflict(d.rows, key[1], key[2])
            THEN [rows |-> d.rows, ret |-> 0, threw |-> TRUE]
            ELSE [rows |-> d.rows \cup
                        {Row(rowId, key[1], key[2], rawValue.type,
                             rawValue.value,
                             Some(serializeContext(rawValue)))},
                  ret |-> rowId, threw |-> FALSE])

RECURSIVE InsertPlaceholders(_, _, _, _, _)
\* The loop of setAttrs over attrs, from the i-th name on.
InsertPlaceholders(rows, rowId, attrs, i, werr) ==
    IF i > Len(attrs) THEN [rows |-> rows, ret |-> rowId, threw |-> FALSE]
    ELSE IF werr = i + 1 \/ Conflict(rows, rowId, attrs[i])
    THEN [rows |-> rows, ret |-> 0, threw |-> TRUE]
    ELSE InsertPlaceholders(
             rows \cup {Row(NextRowId(rows), rowId, attrs[i], Placeholder,
                            Null, Null)},
             rowId, attrs, i + 1, werr)

\* setAttrs that returns the id of the last row it inserted.
setAttrsLastRowId(d, key, attrs, werr) ==
    doSQLite(d,
        LET rowId == NextRowId(d.rows)
        IN  IF werr = 1 \/ Conflict(d.rows, key[1], key[2])
            THEN [rows |-> d.rows, ret |-> 0, threw |-> TRUE]
            ELSE LET f == InsertPlaceholders(
                              d.rows \cup {Row(rowId, key[1], key[2],
                                               FullAttrs, Null, Null)},
                              rowId, attrs, 1, werr)
                 IN  [f EXCEPT !.ret = IF f.threw THEN 0
                                       ELSE NextRowId(f.rows) - 1])

setAttrs(d, key, attrs, werr) ==
    doSQLite(d,
        LET rowId == NextRowId(d.rows)
        IN  IF werr = 1 \/ Conflict(d.rows, key[1], key[2])
            THEN [rows |-> d.rows, ret |-> 0, threw |-> TRUE]
            ELSE InsertPlaceholders(
                     d.rows \cup {Row(rowId, key[1], key[2], FullAttrs,
                                      Null, Null)},
                     rowId, attrs, 1, werr))

\* setValue that takes every value for a leaf.
setValueLeafOnly(d, key, value, werr) == setLeaf(d, key, value, werr)

setValue(d, key, value, werr) ==
    IF value.alt = "vector<Symbol>" THEN setAttrs(d, key, value.attrs, werr)
    ELSE setLeaf(d, key, value, werr)

\* queryAttribute: the row of the key, if any.
QueryAttribute(rows, key) ==
    {r \in rows : r.parent = key[1] /\ r.name = key[2]}

getId(d, key, rerr) ==
    IF rerr THEN Result(d, Null, "SQLiteError")
    ELSE LET q == QueryAttribute(d.rows, key)
         IN  IF q = {} THEN Result(d, Null, "")
             ELSE Result(d, Some(AttrTypeCast((CHOOSE r \in q : TRUE).id)), "")

setIfAbsent(d, key, value, rerr, werr) ==
    LET existingId == getId(d, key, rerr)
    IN  IF existingId.threw # "" THEN Result(d, 0, existingId.threw)
        ELSE IF existingId.ret # Null THEN Result(d, existingId.ret[1], "")
        ELSE setValue(d, key, value, werr)

RECURSIVE InOrder(_, _)
\* The names of a set in the order of NameOrder, from position i on.
InOrder(S, i) ==
    IF i > Len(NameOrder) THEN <<>>
    ELSE (IF NameOrder[i] \in S THEN <<NameOrder[i]>> ELSE <<>>)
         \o InOrder(S, i + 1)

\* queryAttributes: the names of the rows under a parent.
QueryAttributes(rows, parent) ==
    InOrder({r.name : r \in {x \in rows : x.parent = parent}}, 1)

RECURSIVE DecodeAll(_, _)
DecodeAll(tokens, i) ==
    IF i > Len(tokens) THEN <<>>
    ELSE <<decodeContext(tokens[i])>> \o DecodeAll(tokens, i + 1)

getAttr(d, key, rerr) ==
    IF rerr THEN Result(d, Null, "SQLiteError")
    ELSE LET q == QueryAttribute(d.rows, key)
             row == CHOOSE r \in q : TRUE
             rowId == AttrTypeCast(row.id)
             type == AttrTypeCast(row.type)
         IN  IF q = {} THEN Result(d, Null, "")
             ELSE CASE type = Placeholder ->
                         Result(d, Some(<<rowId, placeholder_t>>), "")
                    [] type = FullAttrs ->
                         Result(d, Some(<<rowId,
                             attrs_t(QueryAttributes(d.rows, rowId))>>), "")
                    [] type = String ->
                         Result(d, Some(<<rowId,
                             string_t(getStr(row.value),
                                 IF row.context # Null
                                 THEN DecodeAll(tokenizeString(
                                          getStr(row.context), {";"}), 1)
                                 ELSE <<>>)>>), "")
                    [] type = Bool ->
                         Result(d, Some(<<rowId,
                             bool_t(getInt(row.value) # 0)>>), "")
                    [] type = Missing ->
                         Result(d, Some(<<rowId, missing_t>>), "")
                    [] type = Misc ->
                         Result(d, Some(<<rowId, misc_t>>), "")
                    [] type = Failed ->
                         Result(d, Some(<<rowId, failed_t>>), "")
                    [] OTHER -> Result(d, Null, "Error")


(***************************************************************************)
(* The state.                                                              *)
(*   disk      the rows committed to the file of the fingerprint           *)
(*   cache     "none": no Cache object; "db": a Cache that owns an AttrDb; *)
(*             "nodb": a Cache whose db pointer is null                    *)
(*   rows      the table as the open connection sees it (committed rows    *)
(*             and those of the standing transaction)                      *)
(*   failed    AttrDb::failed                                              *)
(*   txnActive state->txn->active                                          *)
(*   cursors   the live Cursor objects: parent is the index of the parent  *)
(*             cursor (0: std::nullopt), name the edge name, <<id, value>> *)
(*             the cachedValue                                             *)
(*   fault     the signal that ended the process ("" while it runs)        *)
(*   last      the last call of the library surface and what it returned   *)
(*   threads   for each thread that constructs cursors beside the walker,  *)
(*             where it stands in AttrDb::setIfAbsent                      *)
(***************************************************************************)
VARIABLES disk, cache, rows, failed, txnActive, cursors, fault, last, threads

vars ==
    <<disk, cache, rows, failed, txnActive, cursors, fault, last, threads>>

Cursor(parent, name, id, value) ==
    [parent |-> parent, name |-> name, id |-> id, value |-> value]

\* What `last' records: the operation, the cursor it was called on (for a
\* declaration, the parent), the key it addressed, the value and the path
\* given, the id or the cursor index returned (0: the "no row" id, nullptr),
\* the exception that reached the caller, the insert the storage layer failed
\* (0: none), whether the key had a row and whether the store had failed when
\* the call began, and the keys looked up, in order.
Call(op, cur, key, value, path, ret, threw, werr, existed, wasFailed, lookups) ==
    [op |-> op, cur |-> cur, key |-> key, value |-> value, path |-> path,
     ret |-> ret, threw |-> threw, werr |-> werr, existed |-> existed,
     wasFailed |-> wasFailed, lookups |-> lookups]

NoKey == <<0, rootSymbol>>

PlainCall(op, ret, threw) ==
    Call(op, 0, NoKey, placeholder_t, <<>>, ret, threw, 0, FALSE, FALSE, <<>>)

\* The outcomes of opening the store in AttrDb::AttrDb.
OpenOutcomes == {"ok", "createDirs", "open", "schema"}

\* Dereferencing the null db pointer ends the process.
NullDeref == {"SIGSEGV", "SIGABRT"}

(***************************************************************************)
(* Cache::Cache and makeAttrDb.                                            *)
(***************************************************************************)
\* What the constructor of AttrDb throws on each outcome: createDirs raises
\* SysError, the SQLite connection raises SQLiteError.
Throws(outcome) ==
    CASE outcome = "ok" -> ""
      [] outcome = "createDirs" -> "SysError"
      [] outcome \in {"open", "schema"} -> "SQLiteError"

makeAttrDb(outcome) ==
    CASE Throws(outcome) = "" -> [db |-> "db", threw |-> ""]
      [] Throws(outcome) = "SQLiteError" -> [db |-> "nodb", threw |-> ""]
      [] OTHER -> [db |-> "none", threw |-> Throws(outcome)]

CacheCache(useCache, outcome) ==
    IF useCache THEN makeAttrDb(outcome) ELSE [db |-> "nodb", threw |-> ""]

\* The threads beside the walker, and a thread outside setIfAbsent: pc is
\* "idle" or "checked" (getId has returned, setValue has not begun); op,
\* parent, name, value are the declaration it makes, key its key, existingId
\* what getId returned; returned tells that a declaration of the thread has
\* completed, with ret its row id.
Threads == {1, 2}

Idle ==
    [pc |-> "idle", op |-> "", parent |-> 0, name |-> rootSymbol,
     value |-> placeholder_t, key |-> NoKey, existingId |-> Null,
     returned |-> FALSE, ret |-> 0]

Init ==
    /\ disk = {}
    /\ \E useCache \in BOOLEAN, outcome \in OpenOutcomes :
          LET m == CacheCache(useCache, outcome)
          IN  /\ cache = m.db
              /\ txnActive = (m.db = "db")
              /\ last = PlainCall("open", 0, m.threw)
    /\ rows = {}
    /\ failed = FALSE
    /\ cursors = <<>>
    /\ fault = ""
    /\ threads = [t \in Threads |-> Idle]

Open ==
    /\ cache = "none"
    /\ fault = ""
    /\ \E useCache \in BOOLEAN, outcome \in OpenOutcomes :
          LET m == CacheCache(useCache, outcome)
          IN  /\ cache' = m.db
              /\ rows' = disk
              /\ failed' = FALSE
              /\ txnActive' = (m.db = "db")
              /\ cursors' = <<>>
              /\ last' = PlainCall("open", 0, m.threw)
              /\ UNCHANGED <<disk, fault, threads>>

Running == cache # "none" /\ fault = ""

(***************************************************************************)
(* Cache::commit.                                                          *)
(***************************************************************************)
\* commit with the test of the transaction inverted.
commitInactive(c, active, d, committed) ==
    IF c = "db" /\ ~active THEN d ELSE committed

commit(c, active, d, committed) ==
    IF c = "db" /\ active THEN d ELSE committed

Commit ==
    /\ Running
    /\ disk' = commit(cache, txnActive, rows, disk)
    /\ last' = PlainCall("commit", 0, "")
    /\ UNCHANGED <<cache, rows, failed, txnActive, cursors, fault, threads>>

(***************************************************************************)
(* AttrDb::~AttrDb, run when the Cache and its cursors are released.       *)
(***************************************************************************)
\* The destructor without its test of the failed flag.
destroyAlways(c, isFailed, d, committed, cerr) ==
    [disk |-> IF c = "db" /\ ~cerr THEN d ELSE committed, threw |-> ""]

\* The destructor that resets the transaction without committing it.
destroyDiscards(c, isFailed, d, committed, cerr) ==
    [disk |-> committed, threw |-> ""]

\* cerr tells whether txn->commit() raises; the catch-all of the destructor
\* swallows it.  [disk, threw].
destroy(c, isFailed, d, committed, cerr) ==
    [disk |-> IF c = "db" /\ ~isFailed /\ ~cerr THEN d ELSE committed,
     threw |-> ""]

\* The call recorded gives the number of rows not yet committed when the
\* destructor ran, whether the store had failed and whether the commit
\* raised (werr = 1).
Teardown ==
    /\ Running
    /\ \E cerr \in BOOLEAN :
          LET r == destroy(cache, failed, rows, disk, cerr)
          IN  /\ cerr => cache = "db" /\ ~failed
              /\ disk' = r.disk
              /\ last' = Call("teardown", 0, NoKey, placeholder_t, <<>>,
                              Cardinality(rows \ disk), r.threw,
                              IF cerr THEN 1 ELSE 0, FALSE, failed, <<>>)
    /\ rows' = disk'
    /\ cache' = "none"
    /\ failed' = FALSE
    /\ txnActive' = FALSE
    /\ cursors' = <<>>
    /\ UNCHANGED <<fault, threads>>

(***************************************************************************)
(* An abrupt end of the process: the standing transaction is lost.  The    *)
(* call recorded gives the number of rows lost.                            *)
(***************************************************************************)
Crash ==
    /\ cache # "none"
    /\ cache' = "none"
    /\ rows' = disk
    /\ failed' = FALSE
    /\ txnActive' = FALSE
    /\ cursors' = <<>>
    /\ fault' = ""
    /\ last' = PlainCall("crash", Cardinality(rows \ disk), "")
    /\ UNCHANGED <<disk, threads>>

(***************************************************************************)
(* Cursor.                                                                 *)
(***************************************************************************)
getKey(cs, parent, name) ==
    IF parent = 0 THEN <<0, rootSymbol>>
    ELSE <<cs[parent].id, name>>

KeyOf(cs, c) == getKey(cs, cs[c].parent, cs[c].name)

Existed(key) == QueryAttribute(rows, key) # {}

\* A call through the null db pointer.
ThroughNull(op, cur, key, value, path) ==
    /\ fault' \in NullDeref
    /\ last' = Call(op, cur, key, value, path, 0, "", 0, FALSE, FALSE, <<>>)
    /\ UNCHANGED <<disk, cache, rows, failed, txnActive, cursors, threads>>

\* The declaring constructor, for a cursor under `parent' by edge `name'.
Declare(op, parent, name, value, rerr, werr) ==
    LET key == getKey(cursors, parent, name)
        r == setIfAbsent(AttrDbState(rows, failed), key, value, rerr, werr)
    IN  IF cache = "nodb"
        THEN ThroughNull(op, parent, key, value, <<>>)
        ELSE /\ rows' = r.db.rows
             /\ failed' = r.db.failed
             /\ cursors' = IF r.threw = ""
                           THEN Append(cursors,
                                       Cursor(parent, name, r.ret, value))
                           ELSE cursors
             /\ last' = Call(op, parent, key, value, <<>>, r.ret, r.threw,
                             werr, Existed(key), failed, <<>>)
             /\ Cardinality(rows') <= MaxRows
             /\ UNCHANGED <<disk, cache, txnActive, fault, threads>>

GetRoot ==
    /\ Running
    /\ Len(cursors) < MaxCursors
    /\ \E werr \in 0..1 :
          Declare("getRoot", 0, rootSymbol, attrs_t(<<>>), FALSE, werr)

\* The inserts a write of v makes: the row of the key and, for an attribute
\* set, one placeholder per name.
Inserts(v) == 1 + Len(v.attrs)

\* addChild, where the storage layer may fail any of the first n inserts.
AddChildErr(n) ==
    /\ Running
    /\ Len(cursors) < MaxCursors
    /\ \E c \in DOMAIN cursors, name \in Names, v \in Values, werr \in 0..n :
          /\ werr <= Inserts(v)
          /\ Declare("addChild", c, name, v, FALSE, werr)

AddChild == AddChildErr(3)

\* Cursor::setValue, where the storage layer may fail any of the first n
\* inserts.
SetValueErr(n) ==
    /\ Running
    /\ \E c \in DOMAIN cursors, v \in Values, werr \in 0..n :
          LET key == KeyOf(cursors, c)
              r == setValue(AttrDbState(rows, failed), key, v, werr)
          IN  /\ werr <= Inserts(v)
              /\ IF cache = "nodb"
                 THEN ThroughNull("setValue", c, key, v, <<>>)
                 ELSE /\ rows' = r.db.rows
                      /\ failed' = r.db.failed
                      /\ cursors' = [cursors EXCEPT ![c].id = r.ret,
                                                    ![c].value = v]
                      /\ last' = Call("setValue", c, key, v, <<>>, r.ret,
                                      r.threw, werr, Existed(key), failed,
                                      <<>>)
                      /\ Cardinality(rows') <= MaxRows
                      /\ UNCHANGED <<disk, cache, txnActive, fault, threads>>

SetValue == SetValueErr(3)

\* maybeGetAttr on cursor cur of cs: [cursors, res, threw, key]; res is the
\* index of the new cursor, 0 for nullptr.
maybeGetAttr(d, cs, cur, name, rerr) ==
    LET key == <<cs[cur].id, name>>
        rawAttr == getAttr(d, key, rerr)
    IN  IF rawAttr.threw # ""
        THEN [cursors |-> cs, res |-> 0, threw |-> rawAttr.threw, key |-> key]
        ELSE IF rawAttr.ret # Null
        THEN [cursors |-> Append(cs, Cursor(cur, name, rawAttr.ret[1][1],
                                            rawAttr.ret[1][2])),
              res |-> Len(cs) + 1, threw |-> "", key |-> key]
        ELSE [cursors |-> cs, res |-> 0, threw |-> "", key |-> key]

RECURSIVE WalkAttrPath(_, _, _, _, _, _, _)
\* The loop of findAlongAttrPath from the i-th accessor on; rerrAt is the
\* ordinal of the lookup that raises a storage error (0: none).
WalkAttrPath(d, cs, currentCursor, attrPath, i, lookups, rerrAt) ==
    IF i > Len(attrPath)
    THEN [cursors |-> cs, res |-> currentCursor, threw |-> "",
          lookups |-> lookups]
    ELSE LET m == maybeGetAttr(d, cs, currentCursor, attrPath[i], rerrAt = i)
         IN  IF m.res = 0
             THEN [cursors |-> cs, res |-> 0, threw |-> m.threw,
                   lookups |-> Append(lookups, m.key)]
             ELSE WalkAttrPath(d, m.cursors, m.res, attrPath, i + 1,
                               Append(lookups, m.key), rerrAt)

RECURSIVE WalkNoBreak(_, _, _, _, _, _, _)
\* The loop without its break: after a miss it goes on from the cursor it
\* had.
WalkNoBreak(d, cs, currentCursor, attrPath, i, lookups, rerrAt) ==
    IF i > Len(attrPath)
    THEN [cursors |-> cs, res |-> currentCursor, threw |-> "",
          lookups |-> lookups]
    ELSE LET m == maybeGetAttr(d, cs, currentCursor, attrPath[i], rerrAt = i)
         IN  WalkNoBreak(d, m.cursors,
                         IF m.res = 0 THEN currentCursor ELSE m.res,
                         attrPath, i + 1, Append(lookups, m.key), rerrAt)

findAlongAttrPathNoBreak(d, cs, cur, attrPath, rerrAt) ==
    WalkNoBreak(d, cs, cur, attrPath, 1, <<>>, rerrAt)

findAlongAttrPath(d, cs, cur, attrPath, rerrAt) ==
    WalkAttrPath(d, cs, cur, attrPath, 1, <<>>, rerrAt)

\* The paths walked.
AttrPaths == {<<>>, <<"a">>, <<"a", "b">>, <<"a", "b", "a">>}

MaybeGetAttr ==
    /\ Running
    /\ \E c \in DOMAIN cursors, name \in Names :
          LET m == maybeGetAttr(AttrDbState(rows, failed), cursors, c, name,
                                FALSE)
          IN  IF cache = "nodb"
              THEN ThroughNull("maybeGetAttr", c, m.key, placeholder_t,
                               <<name>>)
              ELSE /\ Len(m.cursors) <= MaxCursors
                   /\ cursors' = m.cursors
                   /\ last' = Call("maybeGetAttr", c, m.key, placeholder_t,
                                   <<name>>, m.res, m.threw, 0,
                                   Existed(m.key), failed, <<m.key>>)
                   /\ UNCHANGED <<disk, cache, rows, failed, txnActive,
                                  fault, threads>>

FindAlongAttrPath ==
    /\ Running
    /\ \E c \in DOMAIN cursors, attrPath \in AttrPaths :
          LET w == findAlongAttrPath(AttrDbState(rows, failed), cursors, c,
                                     attrPath, 0)
          IN  IF cache = "nodb" /\ attrPath # <<>>
              THEN ThroughNull("findAlongAttrPath", c, NoKey, placeholder_t,
                               attrPath)
              ELSE /\ w.res # 0 => Len(w.cursors) <= MaxCursors
                   /\ cursors' = IF w.res = 0 THEN cursors ELSE w.cursors
                   /\ last' = Call("findAlongAttrPath", c, NoKey,
                                   placeholder_t, attrPath, w.res, w.threw,
                                   0, FALSE, failed, w.lookups)
                   /\ UNCHANGED <<disk, cache, rows, failed, txnActive,
                                  fault, threads>>

(***************************************************************************)
(* One session of the library surface.                                     *)
(***************************************************************************)
Next ==
    \/ GetRoot
    \/ AddChild
    \/ SetValue
    \/ MaybeGetAttr
    \/ FindAlongAttrPath
    \/ Commit

Spec == Init /\ [][Next]_vars

(***************************************************************************)
(* Sessions one after the other on the same file: a session ends by        *)
(* teardown or abruptly, and a new Cache is constructed.                   *)
(***************************************************************************)
NextRestart ==
    \/ GetRoot
    \/ AddChildErr(1)
    \/ SetValueErr(1)
    \/ Commit
    \/ Teardown
    \/ Crash
    \/ Open

SpecRestart == Init /\ [][NextRestart]_vars

(***************************************************************************)
(* Threads that construct cursors of one Cache at the same time.  Each     *)
(* step is what a thread does while it holds the lock of the AttrDb: the   *)
(* lookup of getId, then (the lock released and taken again) the insert of *)
(* setValue.                                                               *)
(***************************************************************************)
\* The declarations a thread can make: getRoot, or addChild on a cursor.
Declarations(cs) ==
    {[op |-> "getRoot", parent |-> 0, name |-> rootSymbol,
      value |-> attrs_t(<<>>)]}
    \cup {[op |-> "addChild", parent |-> c, name |-> n, value |-> v] :
              c \in DOMAIN cs, n \in Names, v \in Values}

InFlight == {t \in Threads : threads[t].pc = "checked"}

\* The thread enters the declaring constructor and setIfAbsent runs getId.
ThreadGetId(t) ==
    /\ cache = "db"
    /\ fault = ""
    /\ threads[t].pc = "idle"
    /\ Len(cursors) + Cardinality(InFlight) < MaxThreadCursors
    /\ \E decl \in Declarations(cursors) :
          LET key == getKey(cursors, decl.parent, decl.name)
              existingId == getId(AttrDbState(rows, failed), key, FALSE)
          IN  threads' = [threads EXCEPT ![t] =
                  [pc |-> "checked", op |-> decl.op, parent |-> decl.parent,
                   name |-> decl.name, value |-> decl.value, key |-> key,
                   existingId |-> existingId.ret, returned |-> FALSE,
                   ret |-> 0]]
    /\ UNCHANGED <<disk, cache, rows, failed, txnActive, cursors, fault, last>>

\* setIfAbsent goes on from what getId returned, and the constructor
\* completes.
ThreadSetValue(t) ==
    /\ cache = "db"
    /\ fault = ""
    /\ threads[t].pc = "checked"
    /\ LET th == threads[t]
           d == AttrDbState(rows, failed)
           r == IF th.existingId # Null THEN Result(d, th.existingId[1], "")
                ELSE setValue(d, th.key, th.value, 0)
       IN  /\ rows' = r.db.rows
           /\ failed' = r.db.failed
           /\ cursors' = Append(cursors,
                                Cursor(th.parent, th.name, r.ret, th.value))
           /\ threads' = [threads EXCEPT ![t].pc = "idle",
                                         ![t].returned = TRUE,
                                         ![t].ret = r.ret]
    /\ Cardinality(rows') <= MaxRows
    /\ UNCHANGED <<disk, cache, txnActive, fault, last>>

NextThreads ==
    \/ \E t \in Threads : ThreadGetId(t)
    \/ \E t \in Threads : ThreadSetValue(t)

SpecThreads == Init /\ [][NextThreads]_vars

(***************************************************************************)
(* What the claims speak of.                                               *)
(***************************************************************************)
Range(f) == {f[i] : i \in DOMAIN f}

\* The store of the running session.
Store == AttrDbState(rows, failed)

\* The keys the cursors of a session can address: the root's, and a name
\* under a row.
Keys == {<<0, rootSymbol>>} \cup {<<r.id, n>> : r \in rows, n \in Names}

NoRow(key) == QueryAttribute(rows, key) = {}

\* An attribute set given by its name set: no name twice.
DistinctNames(attrs) == Cardinality(Range(attrs)) = Len(attrs)

Shapes == {v \in AllValues : DistinctNames(v.attrs)}

\* Structural equality of values; the names of an attribute set compare as
\* a set, the provenance list of a string in order.
SameValue(v, w) ==
    IF v.alt = "vector<Symbol>"
    THEN w.alt = v.alt /\ Range(w.attrs) = Range(v.attrs)
    ELSE w = v

\* A lookup returned the row id and a value equal to v.
Reads(g, id, v) ==
    /\ g.threw = ""
    /\ g.ret # Null
    /\ g.ret[1][1] = id
    /\ SameValue(v, g.ret[1][2])

IsDeclare(call) == call.op \in {"getRoot", "addChild"}

(***************************************************************************)
(* C1.  Round trip: on a store that has not failed, for every value shape  *)
(* and every key with no row, setValue(key, v) followed by getAttr(key)    *)
(* returns the id of the new row and a value structurally equal to v.      *)
(***************************************************************************)
C1_RoundTrip ==
    cache = "db" /\ ~failed =>
        \A key \in Keys, v \in Shapes :
            NoRow(key) =>
                LET w == setValue(Store, key, v, 0)
                IN  Reads(getAttr(w.db, key, FALSE), w.ret, v)

(***************************************************************************)
(* C2.  Idempotent declare: for a key with no row and two candidate values *)
(* v1 # v2, setIfAbsent(key, v1) and then setIfAbsent(key, v2) return the  *)
(* same row id, the second writes nothing, and getAttr(key) then returns   *)
(* v1.                                                                     *)
(***************************************************************************)
C2_IdempotentDeclare ==
    cache = "db" /\ ~failed =>
        \A key \in Keys, v1, v2 \in Shapes :
            NoRow(key) /\ v1 # v2 =>
                LET r1 == setIfAbsent(Store, key, v1, FALSE, 0)
                    r2 == setIfAbsent(r1.db, key, v2, FALSE, 0)
                IN  /\ r2.ret = r1.ret
                    /\ r2.db = r1.db
                    /\ Reads(getAttr(r2.db, key, FALSE), r1.ret, v1)

(***************************************************************************)
(* C3.  Cursor.setValue(v) on a cursor whose key has a row, with no error  *)
(* of the storage layer's own: afterwards the row of the key decodes to v, *)
(* the cursor's cached value is v and the store has not failed.            *)
(***************************************************************************)
C3_SetValueOverwrites ==
    /\ cache = "db"
    /\ last.op = "setValue"
    /\ last.existed
    /\ ~last.wasFailed
    /\ last.werr = 0
    => /\ ~failed
       /\ cursors[last.cur].value = last.value
       /\ Reads(getAttr(Store, last.key, FALSE), last.ret, last.value)

(***************************************************************************)
(* C4.  FullAttrs contract: after an attribute set with distinct names is  *)
(* declared at a key with no row (the store not failed, no storage error), *)
(* the id returned is that of the FullAttrs row of the key, reading the    *)
(* key yields FullAttrs with exactly those names, and reading each         *)
(* (id, name) yields Placeholder.                                          *)
(***************************************************************************)
DeclaredAttrs ==
    /\ cache = "db"
    /\ last.op \in {"getRoot", "addChild", "setValue"}
    /\ last.value.alt = "vector<Symbol>"
    /\ DistinctNames(last.value.attrs)
    /\ ~last.existed
    /\ ~last.wasFailed
    /\ last.werr = 0

C4_FullAttrsContract ==
    DeclaredAttrs =>
        /\ last.ret # 0
        /\ \E r \in rows :
              /\ r.id = last.ret
              /\ <<r.parent, r.name>> = last.key
              /\ r.type = FullAttrs
        /\ LET g == getAttr(Store, last.key, FALSE)
           IN  /\ Reads(g, last.ret, last.value)
               /\ DistinctNames(g.ret[1][2].attrs)
        /\ \A n \in Range(last.value.attrs) :
              \E id \in {r.id : r \in rows} \ {last.ret} :
                  Reads(getAttr(Store, <<last.ret, n>>, FALSE), id,
                        placeholder_t)

C4_Witness ==
    /\ DeclaredAttrs
    /\ last.op = "addChild"
    /\ last.value = attrs_t(<<"a", "b">>)
    /\ last.ret # 0
    /\ ~failed

(***************************************************************************)
(* C5.  Degraded mode: on a Cache without an AttrDb, getRoot, addChild,    *)
(* setValue and getCachedValue complete without fault, and a cursor's      *)
(* cached value is the value last given to it.                             *)
(***************************************************************************)
C5_DegradedMode ==
    cache = "nodb" =>
        /\ fault = ""
        /\ IsDeclare(last) =>
              /\ cursors # <<>>
              /\ cursors[Len(cursors)].value = last.value
        /\ last.op = "setValue" => cursors[last.cur].value = last.value

(***************************************************************************)
(* C6.  Durability boundary.  A commit on a Cache with a store makes every *)
(* row written so far durable and leaves the session as it was, a fresh    *)
(* transaction open; durable rows are never lost or changed; an abrupt     *)
(* restart loses exactly the rows written since the last commit; a Cache   *)
(* freshly opened on the file sees exactly the durable rows.               *)
(***************************************************************************)
C6_DurabilityBoundary ==
    [][/\ disk \subseteq disk'
       /\ last'.op = "commit" /\ cache = "db" =>
             /\ disk' = rows
             /\ rows' = rows
             /\ txnActive'
       /\ last'.op = "crash" =>
             /\ disk' = disk
             /\ rows' = disk
             /\ last'.ret = Cardinality(rows \ disk)
       /\ last'.op = "open" /\ cache' = "db" =>
             /\ disk' = disk
             /\ rows' = disk
             /\ ~failed']_vars

\* An abrupt restart that lost rows written after the last commit and kept
\* the rows committed before it.
C6_Witness ==
    /\ last.op = "crash"
    /\ last.ret > 0
    /\ disk # {}
    /\ rows = disk

(***************************************************************************)
(* C7.  Sticky failure of writes.  A storage error during a write (an      *)
(* error of the storage layer's own, or the unique constraint) sets the    *)
(* failed flag and the call returns 0; the flag is never cleared while the *)
(* session lasts; every later write (setValue, or the insert of a          *)
(* declaration whose key has no row) returns 0 and inserts no row.         *)
(***************************************************************************)
SessionEnds(call) == call.op \in {"teardown", "crash", "open"}

\* The call reaches AttrDb::setValue.
Writes(call) ==
    \/ call.op = "setValue"
    \/ IsDeclare(call) /\ ~call.existed

C7_StickyFailure ==
    [][/\ failed /\ ~SessionEnds(last') => failed'
       /\ cache = "db" /\ Writes(last') =>
             /\ failed => last'.ret = 0 /\ rows' = rows
             /\ ~failed /\ (last'.werr # 0 \/ last'.existed) =>
                   failed' /\ last'.ret = 0
             /\ failed' => last'.ret = 0]_vars

\* A declaration of a key with no row, made after the store had failed.
C7_Witness ==
    /\ cache = "db"
    /\ failed
    /\ last.op = "addChild"
    /\ last.wasFailed
    /\ ~last.existed
    /\ last.ret = 0

(***************************************************************************)
(* C8.  Reads after failure are misses: once the failed flag is set,       *)
(* getAttr returns absent for every key and the existence lookup of        *)
(* setIfAbsent finds no row.                                               *)
(***************************************************************************)
C8_FailedReadsMiss ==
    cache = "db" /\ failed =>
        /\ \A key \in Keys :
              /\ getAttr(Store, key, FALSE).ret = Null
              /\ getId(Store, key, FALSE).ret = Null
        /\ last.op \in {"maybeGetAttr", "findAlongAttrPath"}
           /\ last.wasFailed /\ last.path # <<>> => last.ret = 0

(***************************************************************************)
(* C9.  After a write failure nothing written since the last commit        *)
(* becomes durable, whether the session commits or is torn down, and the   *)
(* rows durable before the failure stay as they are.                       *)
(***************************************************************************)
C9_FailureAbandonsUncommitted ==
    [][failed => disk' = disk]_vars

(***************************************************************************)
(* C10.  Missing path.  maybeGetAttr(name) returns absent when the table   *)
(* has no row for (the cursor's row id, name) and a cursor of that row     *)
(* otherwise.  findAlongAttrPath returns the starting cursor for the empty *)
(* path; when a name of the path has no row under the row reached so far   *)
(* it returns absent and looks up none of the names after it; when every   *)
(* name hits it returns the cursor of the last name.                       *)
(***************************************************************************)
RowUnder(id, name) == {r \in rows : r.parent = id /\ r.name = name}

RECURSIVE HitCount(_, _, _)
\* How many names of the path, from the i-th on, have a row each under the
\* row of the one before, starting under the row `id'.
HitCount(id, path, i) ==
    IF i > Len(path) \/ RowUnder(id, path[i]) = {} THEN 0
    ELSE 1 + HitCount((CHOOSE r \in RowUnder(id, path[i]) : TRUE).id, path,
                      i + 1)

RECURSIVE TargetId(_, _, _)
\* The id of the row the path leads to from the row `id'.
TargetId(id, path, i) ==
    IF i > Len(path) THEN id
    ELSE TargetId((CHOOSE r \in RowUnder(id, path[i]) : TRUE).id, path, i + 1)

C11_ProvenanceCodec ==
    cache = "db" /\ ~failed =>
        /\ serializeContext(fromVariant(string_t(<<"s">>, <<>>))) = <<>>
        /\ \A key \in Keys, c \in Contexts :
              NoRow(key) =>
                  LET w == setLeaf(Store, key, string_t(<<"s">>, c), 0)
                      g == getAttr(w.db, key, FALSE)
                  IN  /\ g.ret # Null
                      /\ g.ret[1][2].alt = "string_t"
                      /\ g.ret[1][2].context = c

(***************************************************************************)
(* C12.  Open failure never reaches the caller: however opening the store  *)
(* fails (the cache directory cannot be created, the database file cannot  *)
(* be opened, the schema cannot be initialized), the construction of the   *)
(* Cache completes normally, with or without an AttrDb.                    *)
(***************************************************************************)
C12_OpenFailureSwallowed ==
    /\ \A outcome \in OpenOutcomes :
          LET m == CacheCache(TRUE, outcome)
          IN  /\ m.threw = ""
              /\ outcome # "ok" => m.db = "nodb"
    /\ last.op = "open" => last.threw = "" /\ cache \in {"db", "nodb"}

(***************************************************************************)
(* C13.  Declare memo holds the winner: after getRoot or addChild builds a *)
(* cursor, the cursor's cached value is the candidate value when the key   *)
(* had no row, and when the key had a row it is the value stored in that   *)
(* row, paired with the row's id.                                          *)
(***************************************************************************)
C13_MemoHoldsWinner ==
    cache = "db" /\ IsDeclare(last) /\ last.threw = "" =>
        LET c == cursors[Len(cursors)]
        IN  IF last.existed
            THEN Reads(getAttr(Store, last.key, FALSE), c.id, c.value)
            ELSE c.value = last.value

(***************************************************************************)
(* C14.  Key uniqueness: whatever the session does, the table holds at     *)
(* most one row for each (parent, name) and at most one row for each id;   *)
(* rows are never removed or changed, and a row that is inserted has an id *)
(* larger than that of every row inserted before it (so a child's id is    *)
(* larger than its parent's).                                              *)
(***************************************************************************)
C14_KeyUniqueness ==
    [][/\ \A r1, r2 \in rows' :
             \/ r1.parent = r2.parent /\ r1.name = r2.name
             \/ r1.id = r2.id
             => r1 = r2
       /\ rows \subseteq rows'
       /\ \A r \in rows' \ rows :
             /\ r.id > 0
             /\ r.parent < r.id
             /\ \A q \in rows : q.id < r.id
             /\ \A q \in rows' \ rows :
                   q.parent = r.id => r.id < q.id]_vars

\* A write to a key that had a row, in a table of an attribute set and its
\* children.
C14_Witness ==
    /\ cache = "db"
    /\ last.op = "setValue"
    /\ last.existed
    /\ ~last.wasFailed
    /\ last.werr = 0
    /\ Cardinality(rows) >= 3

(***************************************************************************)
(* C15.  Concurrent declare is safe: when threads declare cursors through  *)
(* setIfAbsent at the same time, with no error of the storage layer's own, *)
(* the failed flag stays unset, every declaration that has completed       *)
(* returned the non-zero id of the row of its key, and two threads that    *)
(* declared the same key got the same id.                                  *)
(***************************************************************************)
C15_ConcurrentDeclare ==
    cache = "db" =>
        /\ ~failed
        /\ \A t \in Threads :
              threads[t].returned =>
                  /\ threads[t].ret # 0
                  /\ \E r \in QueryAttribute(rows, threads[t].key) :
                        r.id = threads[t].ret
        /\ \A t1, t2 \in Threads :
              /\ threads[t1].returned
              /\ threads[t2].returned
              /\ threads[t1].key = threads[t2].key
              => threads[t1].ret = threads[t2].ret

(***************************************************************************)
(* C16.  The child-name set of a FullAttrs node is fixed when setAttrs     *)
(* executes: whatever the session does next (addChild on cursors of the    *)
(* node, the root included, setValue on its children), reading the key of  *)
(* a FullAttrs row yields the same name set as before.                     *)
(***************************************************************************)
C16_ChildSetFixed ==
    [][cache = "db" =>
          \A r \in rows :
              r.type = FullAttrs =>
                  LET key == <<r.parent, r.name>>
                      before == getAttr(Store, key, FALSE)
                      after == getAttr(AttrDbState(rows', failed'), key,
                                       FALSE)
                  IN  /\ after.ret # Null
                      /\ after.ret[1][2].alt = "vector<Symbol>"
                      /\ Range(after.ret[1][2].attrs)
                             = Range(before.ret[1][2].attrs)]_vars

(***************************************************************************)
(* C17.  The root is never materialized as a row: neither the table of the *)
(* session nor the file holds a row with parent 0 and the empty name.      *)
(***************************************************************************)
C17_RootNotMaterialized ==
    \A r \in rows \cup disk : ~(r.parent = 0 /\ r.name = rootSymbol)

(***************************************************************************)
(* C18.  Durability is never implicit: the file changes only through an    *)
(* explicit Cache.commit(); no write, read or teardown of the store makes  *)
(* uncommitted writes durable.                                             *)
(***************************************************************************)
C18_DurableOnlyByCommit ==
    [][disk' # disk => last'.op = "commit"]_vars

(***************************************************************************)
(* C18 as amended.  The file changes only through an explicit              *)
(* Cache.commit() or through the teardown of a store whose failed flag is  *)
(* unset, and what is durable then is the table of the session; no write   *)
(* and no other end of the session changes the file.                       *)
(***************************************************************************)
C18_DurableByCommitOrTeardown ==
    [][disk' # disk =>
          /\ cache = "db"
          /\ disk' = rows
          /\ \/ last'.op = "commit" /\ txnActive
             \/ last'.op = "teardown" /\ ~failed]_vars

\* A teardown of a store that had not failed, with rows not yet committed,
\* which are durable afterwards.
C18_Witness ==
    /\ last.op = "teardown"
    /\ ~last.wasFailed
    /\ last.werr = 0
    /\ last.ret > 0
    /\ Cardinality(disk) >= last.ret

(***************************************************************************)
(* C19.  Teardown: when the AttrDb is destroyed with the failed flag unset *)
(* the open transaction is committed, so (unless the commit itself raises) *)
(* every row of the session is durable; with the failed flag set it is     *)
(* discarded and the file stays as it was; in either case no error reaches *)
(* the caller and the session is over.                                     *)
(***************************************************************************)
C19_Teardown ==
    [][last'.op = "teardown" /\ cache = "db" =>
          /\ ~failed /\ last'.werr = 0 => disk' = rows
          /\ failed \/ last'.werr # 0 => disk' = disk
          /\ last'.threw = ""
          /\ cache' = "none"
          /\ rows' = disk']_vars

\* A teardown of a failed store that discarded rows not yet committed.
C19_Witness ==
    /\ last.op = "teardown"
    /\ last.wasFailed
    /\ last.ret > 0
    /\ cache = "none"

(***************************************************************************)
(* C20.  Bool encoding: the scalars written for Bool(true) and Bool(false) *)
(* differ, and a Bool row written for b reads back as Bool(b), for both    *)
(* truth values.                                                           *)
(***************************************************************************)
C20_BoolEncoding ==
    /\ fromVariant(bool_t(TRUE)).value # fromVariant(bool_t(FALSE)).value
    /\ cache = "db" /\ ~failed =>
          \A key \in Keys, b \in BOOLEAN :
              NoRow(key) =>
                  LET w == setLeaf(Store, key, bool_t(b), 0)
                      g == getAttr(w.db, key, FALSE)
                  IN  /\ \E r \in QueryAttribute(w.db.rows, key) :
                            /\ r.type = Bool
                            /\ r.value = fromVariant(bool_t(b)).value
                      /\ g.ret # Null
                      /\ g.ret[1][2] = bool_t(b)

(***************************************************************************)
(* C21.  A read failure is a miss: when the storage layer raises an error  *)
(* during a lookup, getAttr and the existence lookup of setIfAbsent answer *)
(* as for a key with no row, and no error reaches the caller of            *)
(* maybeGetAttr, findAlongAttrPath or of a declaration (addChild,          *)
(* getRoot), which goes on to write as for a key with no row.              *)
(***************************************************************************)
C21_ReadFailureIsMiss ==
    cache = "db" =>
        /\ \A key \in Keys :
              /\ getAttr(Store, key, TRUE) = Result(Store, Null, "")
              /\ getId(Store, key, TRUE) = Result(Store, Null, "")
              /\ \A v \in Values :
                    setIfAbsent(Store, key, v, TRUE, 0)
                        = setValue(Store, key, v, 0)
        /\ \A c \in DOMAIN cursors :
              /\ \A n \in Names :
                    LET m == maybeGetAttr(Store, cursors, c, n, TRUE)
                    IN  m.threw = "" /\ m.res = 0
              /\ \A p \in AttrPaths \ {<<>>} :
                    LET w == findAlongAttrPath(Store, cursors, c, p, 1)
                    IN  w.threw = "" /\ w.res = 0

(***************************************************************************)
(* C22.  Distinct nodes have distinct keys: the root's key is (0, ""), a   *)
(* non-root cursor's key is (its parent cursor's current row id, its edge  *)
(* name) and never has parent 0, and two live cursors reached by different *)
(* name paths from the root never derive the same key, whatever writes     *)
(* failed before.                                                          *)
(***************************************************************************)
RECURSIVE PathOf(_, _)
\* The edge names from the root down to cursor c.
PathOf(cs, c) ==
    IF cs[c].parent = 0 THEN <<>>
    ELSE Append(PathOf(cs, cs[c].parent), cs[c].name)

C22_DistinctKeys ==
    cache = "db" =>
        /\ \A c \in DOMAIN cursors :
              IF cursors[c].parent = 0
              THEN KeyOf(cursors, c) = <<0, rootSymbol>>
              ELSE /\ KeyOf(cursors, c)
                          = <<cursors[cursors[c].parent].id, cursors[c].name>>
                   /\ KeyOf(cursors, c)[1] # 0
        /\ \A c1, c2 \in DOMAIN cursors :
              PathOf(cursors, c1) # PathOf(cursors, c2)
                  => KeyOf(cursors, c1) # KeyOf(cursors, c2)

(***************************************************************************)
(* C23.  The leaf-path precondition is never violated from the public API: *)
(* no call of getRoot, addChild or Cursor.setValue, and no setValue or     *)
(* setIfAbsent on the store with any value (at the key of the last call or *)
(* of a live cursor), ends in the assertion of setLeaf; an attribute set   *)
(* written through them leaves a FullAttrs row and any other value a row   *)
(* of its own type.  setLeaf called directly with an attribute set fails   *)
(* the assertion, writes nothing and leaves the failed flag as it was.     *)
(***************************************************************************)
CursorKeys == {last.key} \cup {KeyOf(cursors, c) : c \in DOMAIN cursors}

C23_LeafPrecondition ==
    cache = "db" =>
        /\ last.threw # "assert"
        /\ \A key \in CursorKeys, v \in AllValues :
              LET w == setValue(Store, key, v, 0)
                  s == setIfAbsent(Store, key, v, FALSE, 0)
              IN  /\ w.threw = ""
                  /\ s.threw = ""
                  /\ w.ret # 0 =>
                        \E r \in w.db.rows :
                            /\ r.id = w.ret
                            /\ r.type = fromVariant(v).type
                            /\ (r.type = FullAttrs) = (v.alt = "vector<Symbol>")
        /\ \A key \in CursorKeys, l \in AttrLists :
              setLeaf(Store, key, attrs_t(l), 0) = Result(Store, 0, "assert")

\* A session that has written an attribute set and a leaf through the
\* cursors: the table holds a FullAttrs row and a Bool row.
C23_Witness ==
    /\ cache = "db"
    /\ ~failed
    /\ last.op \in {"getRoot", "addChild", "setValue"}
    /\ last.threw = ""
    /\ \E r \in rows : r.type = FullAttrs
    /\ \E r \in rows : r.type = Bool

=============================================================================
